---- MODULE Spec2Model ----
(***************************************************************************)
(* oom-notifier: two pollers (the process-table refresher procs_browser    *)
(* and the kernel-log watcher dmesg_browser) sharing one Mutex<LruCache>,  *)
(* the log-line parsing, the one-shot correlation, the sink dispatch and   *)
(* the signal-driven shutdown of src/src/main.rs.                          *)
(***************************************************************************)
EXTENDS Integers, Sequences, FiniteSets, TLC

\* ------------------------------------------------------------------ bounds

\* Largest process id the process enumeration reports.
MaxPid == 3
\* Largest timestamp (time units since boot) a ring-buffer entry carries.
MaxTs == 2
\* Largest uptime (same units) read when the watcher starts.
MaxUptime == 1
\* Most entries one read of the ring buffer returns.
MaxEntries == 2

\* Capacity of the cache: pid_max, LruCache::new(pid_max).
PidMax == 2
\* Most characters of /proc/sys/kernel/pid_max.
MaxFileLen == 3
\* i32::MAX, the largest value parse::<i32>() accepts.
MaxI32 == 2147483647

Pids == 1..MaxPid

\* ------------------------------------------------------- characters, text

Upper ==
  << "A", "B", "C", "D", "E", "F", "G", "H", "I", "J", "K", "L", "M",
     "N", "O", "P", "Q", "R", "S", "T", "U", "V", "W", "X", "Y", "Z" >>

Lower ==
  << "a", "b", "c", "d", "e", "f", "g", "h", "i", "j", "k", "l", "m",
     "n", "o", "p", "q", "r", "s", "t", "u", "v", "w", "x", "y", "z" >>

Digits == << "0", "1", "2", "3", "4", "5", "6", "7", "8", "9" >>

\* U+00B2 SUPERSCRIPT TWO: char::is_numeric() is true of it, and it is no
\* ASCII digit.
Sup2 == "sup2"

IsIn(c, s) == \E i \in 1..Len(s) : s[i] = c

IndexIn(c, s) == CHOOSE i \in 1..Len(s) : s[i] = c

\* char::to_lowercase of one character.
ToLowerChar(c) == IF IsIn(c, Upper) THEN Lower[IndexIn(c, Upper)] ELSE c

\* String::to_lowercase.
ToLowercase(str) == [i \in 1..Len(str) |-> ToLowerChar(str[i])]

\* char::is_numeric.
IsNumericChar(c) == IsIn(c, Digits) \/ c = Sup2

\* char::is_whitespace.
IsWhitespace(c) == c \in {" ", "\t", "\n"}

\* is_string_numeric: no character of str is non-numeric.
is_string_numeric(str) == \A i \in 1..Len(str) : IsNumericChar(str[i])

\* str::contains.
Contains(hay, needle) ==
  \E i \in 1..(Len(hay) - Len(needle) + 1) :
    SubSeq(hay, i, i + Len(needle) - 1) = needle

RECURSIVE SplitFrom(_, _, _)
\* The tokens of str from position i on, cur being the token under way.
SplitFrom(str, i, cur) ==
  IF i > Len(str)
    THEN IF cur = << >> THEN << >> ELSE << cur >>
    ELSE IF IsWhitespace(str[i])
      THEN IF cur = << >>
        THEN SplitFrom(str, i + 1, << >>)
        ELSE << cur >> \o SplitFrom(str, i + 1, << >>)
      ELSE SplitFrom(str, i + 1, Append(cur, str[i]))

\* str::split_whitespace: the maximal runs of non-whitespace, in order.
split_whitespace(str) == SplitFrom(str, 1, << >>)

NoInt == [ok |-> FALSE, val |-> 0]

RECURSIVE ParseFrom(_, _, _)
\* Digit by digit, refusing a non-ASCII digit and a value above i32::MAX.
ParseFrom(tok, i, acc) ==
  IF i > Len(tok)
    THEN [ok |-> TRUE, val |-> acc]
    ELSE IF ~IsIn(tok[i], Digits)
      THEN NoInt
      ELSE LET d == IndexIn(tok[i], Digits) - 1
           IN IF acc > (MaxI32 - d) \div 10
                THEN NoInt
                ELSE ParseFrom(tok, i + 1, acc * 10 + d)

\* str::parse::<i32>() of an unsigned token: Ok(val) or Err.
ParseI32(tok) == IF tok = << >> THEN NoInt ELSE ParseFrom(tok, 1, 0)

RECURSIVE DigitsOf(_)
DigitsOf(n) ==
  IF n < 10 THEN << Digits[n + 1] >>
            ELSE Append(DigitsOf(n \div 10), Digits[(n % 10) + 1])

\* i32::to_string.
I32ToString(n) == IF n < 0 THEN << "-" >> \o DigitsOf(0 - n) ELSE DigitsOf(n)

\* The signature the watcher looks for.
Signature ==
  << "o", "u", "t", " ", "o", "f", " ", "m", "e", "m", "o", "r", "y", ":" >>

\* ------------------------------------------------- ring-buffer messages

\* "Out of memory: Killed process 1 (a) uid 0"
MsgKilled ==
  << "O", "u", "t", " ", "o", "f", " ", "m", "e", "m", "o", "r", "y", ":", " ",
     "K", "i", "l", "l", "e", "d", " ", "p", "r", "o", "c", "e", "s", "s", " ",
     "1", " ", "(", "a", ")", " ", "u", "i", "d", " ", "0" >>

\* "OUT OF MEMORY: kill 2 1"
MsgUpper ==
  << "O", "U", "T", " ", "O", "F", " ", "M", "E", "M", "O", "R", "Y", ":", " ",
     "k", "i", "l", "l", " ", "2", " ", "1" >>

\* "Out of memory: no pid"
MsgNoPid ==
  << "O", "u", "t", " ", "o", "f", " ", "m", "e", "m", "o", "r", "y", ":", " ",
     "n", "o", " ", "p", "i", "d" >>

\* "usb 1 attached"
MsgOther ==
  << "u", "s", "b", " ", "1", " ", "a", "t", "t", "a", "c", "h", "e", "d" >>

\* "Out of memory: Killed process 2147483648"
MsgHuge ==
  << "O", "u", "t", " ", "o", "f", " ", "m", "e", "m", "o", "r", "y", ":", " ",
     "K", "i", "l", "l", "e", "d", " ", "p", "r", "o", "c", "e", "s", "s", " ",
     "2", "1", "4", "7", "4", "8", "3", "6", "4", "8" >>

\* "out of memory: 01 x"
MsgZero ==
  << "o", "u", "t", " ", "o", "f", " ", "m", "e", "m", "o", "r", "y", ":", " ",
     "0", "1", " ", "x" >>

\* The messages a ring-buffer entry may carry.
Messages == << MsgKilled, MsgUpper, MsgNoPid, MsgOther, MsgHuge, MsgZero >>

\* The index of the first all-numeric token at position from or later, 0 when
\* there is none.
NextNumeric(tokens, from) ==
  IF \E i \in from..Len(tokens) : is_string_numeric(tokens[i])
    THEN CHOOSE i \in from..Len(tokens) :
           /\ is_string_numeric(tokens[i])
           /\ \A j \in from..(i - 1) : ~is_string_numeric(tokens[j])
    ELSE 0

\* ------------------------------------------------------------- the cache

\* LruCache<i32, String> as the sequence of its entries, most recently used
\* first.
HasPid(cache, pid) == \E i \in 1..Len(cache) : cache[i].pid = pid

PosOf(cache, pid) == CHOOSE i \in 1..Len(cache) : cache[i].pid = pid

Without(cache, i) == SubSeq(cache, 1, i - 1) \o SubSeq(cache, i + 1, Len(cache))

\* The value the cache holds for a present pid.
ValueOf(cache, pid) == cache[PosOf(cache, pid)].cmdline

\* A put that never evicts.
LruPut_NoEvict(cache, cap, pid, cmdline) ==
  LET e == [pid |-> pid, cmdline |-> cmdline]
  IN IF HasPid(cache, pid)
       THEN << e >> \o Without(cache, PosOf(cache, pid))
       ELSE << e >> \o cache

\* A put that appends the new value to the one the key has.
LruPut_Merge(cache, cap, pid, cmdline) ==
  IF HasPid(cache, pid)
    THEN << [pid |-> pid, cmdline |-> ValueOf(cache, pid) \o " " \o cmdline] >>
           \o Without(cache, PosOf(cache, pid))
    ELSE IF Len(cache) >= cap
      THEN << [pid |-> pid, cmdline |-> cmdline] >> \o SubSeq(cache, 1, cap - 1)
      ELSE << [pid |-> pid, cmdline |-> cmdline] >> \o cache

\* A put that makes room for every new key, full cache or not.
LruPut_EvictEarly(cache, cap, pid, cmdline) ==
  LET e == [pid |-> pid, cmdline |-> cmdline]
  IN IF HasPid(cache, pid)
       THEN << e >> \o Without(cache, PosOf(cache, pid))
       ELSE << e >> \o SubSeq(cache, 1, Len(cache) - 1)

\* LruCache::put: overwrite a present key, else insert, evicting the least
\* recently used entry of a full cache; the key becomes the most recent.
LruPut(cache, cap, pid, cmdline) ==
  LET e == [pid |-> pid, cmdline |-> cmdline]
  IN IF HasPid(cache, pid)
       THEN << e >> \o Without(cache, PosOf(cache, pid))
       ELSE IF cap = 0
         THEN cache
         ELSE IF Len(cache) >= cap
           THEN << e >> \o SubSeq(cache, 1, cap - 1)
           ELSE << e >> \o cache

\* LruCache::get: a hit makes the key the most recent.
LruGet(cache, pid) ==
  IF HasPid(cache, pid)
    THEN << cache[PosOf(cache, pid)] >> \o Without(cache, PosOf(cache, pid))
    ELSE cache

\* A pop that leaves the entry in the cache.
LruPop_Keep(cache, pid) == cache

\* LruCache::pop: the entry is removed.
LruPop(cache, pid) ==
  IF HasPid(cache, pid) THEN Without(cache, PosOf(cache, pid)) ELSE cache

\* --------------------------------------------------- process enumeration

\* What proc.cmdline() gives for one process: its arguments, or an error.
CmdlineResults ==
  { [ok |-> TRUE, args |-> << "nginx:", "worker" >>, error |-> ""],
    [ok |-> FALSE, args |-> << >>, error |-> "No such process"] }

RECURSIVE Join(_)
\* cmdline.join(" ")
Join(args) ==
  IF args = << >> THEN ""
  ELSE IF Len(args) = 1 THEN args[1]
  ELSE args[1] \o " " \o Join(Tail(args))

\* The cache value of one enumerated process.
CmdlineOf(res) == IF res.ok THEN Join(res.args) ELSE res.error

\* ---------------------------------------------------------- configuration

SyslogProtos == { "", "unix", "tcp", "ftp" }

Configs ==
  [ syslog_proto : SyslogProtos,
    syslog_server : { "", "logs:514" },
    elasticsearch_server : { "", "http://es:9200" },
    elasticsearch_index : { "", "oom" },
    kafka_brokers : { "", "k1:9092,k2:9092" },
    kafka_topic : { "", "oom" },
    slack_webhook : { "", "https://hooks/x" },
    slack_channel : { "", "#ops" } ]

is_empty(s) == s = ""

\* The four conditions guarding the sends.
EsEnabled(c) ==
  ~is_empty(c.elasticsearch_index) /\ ~is_empty(c.elasticsearch_server)

SlackEnabled(c) == ~is_empty(c.slack_channel) /\ ~is_empty(c.slack_webhook)

\* A broker send guarded by the topic alone.
KafkaEnabled_TopicOnly(c) == ~is_empty(c.kafka_topic)

KafkaEnabled(c) == ~is_empty(c.kafka_topic) /\ ~is_empty(c.kafka_brokers)

SyslogEnabled(c) ==
  \/ c.syslog_proto = "unix"
  \/ (~is_empty(c.syslog_proto) /\ ~is_empty(c.syslog_server))

\* A configuration from its eight option values.
Config(sp, ss, es, ei, kb, kt, sw, sc) ==
  [ syslog_proto |-> sp, syslog_server |-> ss,
    elasticsearch_server |-> es, elasticsearch_index |-> ei,
    kafka_brokers |-> kb, kafka_topic |-> kt,
    slack_webhook |-> sw, slack_channel |-> sc ]

\* The configurations of the whole-system runs: every sink enabled, and every
\* sink partially configured (syslog over the unix socket with no server, a
\* topic with no brokers).
RunConfigs ==
  { Config("tcp", "logs:514", "http://es:9200", "oom", "k1:9092,k2:9092", "oom",
           "https://hooks/x", "#ops"),
    Config("unix", "", "http://es:9200", "", "", "oom", "", "#ops") }

\* The sinks a configuration enables, in the order of the dispatch.
SinkOrder == << "es", "slack", "kafka", "syslog" >>

Enabled(c, sink) ==
  CASE sink = "es" -> EsEnabled(c)
    [] sink = "slack" -> SlackEnabled(c)
    [] sink = "kafka" -> KafkaEnabled(c)
    [] sink = "syslog" -> SyslogEnabled(c)

\* ------------------------------------------------------------- the state

VARIABLES
  procs,                    \* the shared LruCache, most recently used first
  lock,                     \* who holds the Mutex: "free", "b" or "d"
  poisoned,                 \* the Mutex was held by a thread that panicked
  term_b, term_d,           \* the two shutdown flags
  sig,                      \* "none", or "delivered" once a signal has arrived
  pc_b,                     \* where procs_browser is
  listed,                   \* the pids this refresh cycle has put so far
  report_b,                 \* the failure this refresh cycle reported
  pc_d,                     \* where dmesg_browser is
  last_observed_timestamp,  \* the watermark
  config,                   \* the eight option values, read once
  uptime,                   \* the host's uptime when the watcher starts
  pid_max_file,             \* /proc/sys/kernel/pid_max as main finds it
  pid_max,                  \* the capacity main gave the cache
  taken,                    \* entries of this read the loop has taken
  entry,                    \* the matching entry whose line is being scanned
  tok_pos,                  \* next token of that line the scan looks at
  pid_found,
  pid, full_cmdline,        \* the locals of the hit arm
  oom_event,                \* the event being dispatched
  attempts,                 \* the sinks this event was sent to, in order
  last_result,              \* what the send that returned last returned
  lookups,                  \* cache lookups made for the line being scanned
  outcome,                  \* how the last entry taken in this cycle ended
  events,                   \* timestamps of the entries an event was built for
  misses,                   \* timestamps of the entries a miss was reported for
  report_d,                 \* the failure this poll cycle reported
  pc_main                   \* where main is

vars ==
  << procs, lock, poisoned, term_b, term_d, sig, pc_b, listed, report_b, pc_d,
     last_observed_timestamp, config, uptime, pid_max_file, pid_max, taken,
     entry, tok_pos, pid_found, pid,
     full_cmdline, oom_event, attempts, last_result, lookups, outcome, events,
     misses, report_d, pc_main >>

b_vars == << pc_b, listed, report_b >>

sig_vars == << term_b, term_d, sig >>

\* What no step of the watcher changes.
\* What startup fixes for the whole run.
boot_vars == << config, uptime, pid_max_file, pid_max >>

w_rest == << sig_vars, b_vars, boot_vars, pc_main >>

\* The watcher's locals of one line and of its event.
line_vars == << entry, tok_pos, pid_found, pid, full_cmdline, lookups >>

send_vars == << oom_event, attempts, last_result >>

d_vars ==
  << pc_d, last_observed_timestamp, taken, line_vars, send_vars, outcome,
     events, misses, report_d >>

NoEntry == [ts |-> << >>, msg |-> 0]

NoEvent ==
  [pid |-> << >>, cmdline |-> "", hostname |-> "", kernel |-> "", time |-> << >>]

NoResult == [sink |-> "", result |-> "", status |-> ""]

\* What a ring-buffer read may return as one entry: a message and an optional
\* timestamp since boot.
Entries ==
  [ts : { << >> } \cup { << t >> : t \in 0..MaxTs }, msg : 1..Len(Messages)]

\* An entry with no timestamp taken as the newest there can be.
TimestampOf_NoneIsNew(e) == IF e.ts = << >> THEN MaxTs ELSE e.ts[1]

\* entry.timestamp_from_system_start.unwrap_or(Duration::from_secs(0))
TimestampOf(e) == IF e.ts = << >> THEN 0 ELSE e.ts[1]

\* entry.message.to_lowercase(), message by message.
LowercaseMessage == [m \in 1..Len(Messages) |-> ToLowercase(Messages[m])]

\* lowercase_message.contains("out of memory:")
HasSignature == [m \in 1..Len(Messages) |-> Contains(LowercaseMessage[m], Signature)]

\* lowercase_message.split_whitespace()
Parts == [m \in 1..Len(Messages) |-> split_whitespace(LowercaseMessage[m])]

\* get_hostname, get_kernel_version and the wall clock, as build_oom_event
\* reads them.
Hostnames == { "web-1" }

KernelVersions == { "Linux version 5.10" }

WallClockMillis == { 1700 }

\* build_oom_event
build_oom_event(p, cmdline, hostname, kernel, now) ==
  [pid |-> I32ToString(p), cmdline |-> cmdline, hostname |-> hostname,
   kernel |-> kernel, time |-> I32ToString(now)]

\* --------------------------------------------------------------- startup

\* The characters /proc/sys/kernel/pid_max is made of here.
FileChars == { "0", "2", "4", "+", "-", "x", "\n" }

FileContents == UNION { [1..n -> FileChars] : n \in 0..MaxFileLen }

\* fs::read_to_string("/proc/sys/kernel/pid_max"): an error, or the content.
PidMaxFiles ==
  { [readable |-> FALSE, content |-> << >>] }
    \cup { [readable |-> TRUE, content |-> c] : c \in FileContents }

\* A trim that leaves the text as it is.
Trim_None(str) == str

\* str::trim: the text without its leading and trailing whitespace.
Trim(str) ==
  LET keep == { i \in 1..Len(str) : ~IsWhitespace(str[i]) }
  IN IF keep = {} THEN << >>
     ELSE SubSeq(str, CHOOSE i \in keep : \A j \in keep : i <= j,
                      CHOOSE i \in keep : \A j \in keep : i >= j)

RECURSIVE ParseDigits(_, _, _)
\* Digit by digit, refusing anything that is no ASCII digit.
ParseDigits(tok, i, acc) ==
  IF i > Len(tok)
    THEN [ok |-> TRUE, val |-> acc]
    ELSE IF ~IsIn(tok[i], Digits)
      THEN NoInt
      ELSE ParseDigits(tok, i + 1, acc * 10 + (IndexIn(tok[i], Digits) - 1))

\* str::parse::<usize>(): digits after an optional "+"; no "-", no empty text.
\* A text of MaxFileLen characters is far below usize::MAX.
ParseUsize(tok) ==
  LET digits == IF tok # << >> /\ tok[1] = "+" THEN Tail(tok) ELSE tok
  IN IF digits = << >> THEN NoInt ELSE ParseDigits(digits, 1, 0)

\* get_pid_max, with the unwrap of its Ok arm: Err for an unreadable file,
\* a panic for a content that is no usize, else Ok(the number).
get_pid_max(file) ==
  IF ~file.readable
    THEN [kind |-> "Err", val |-> 0]
    ELSE LET r == ParseUsize(Trim(file.content))
         IN IF r.ok THEN [kind |-> "Ok", val |-> r.val]
                    ELSE [kind |-> "panic", val |-> 0]

\* get_uptime when the host has been up for u: Err for an unreadable
\* /proc/uptime, Ok(0) for a first token that is no number (or none), else
\* Ok(u).
get_uptime(u) ==
  { [ok |-> FALSE, val |-> 0], [ok |-> TRUE, val |-> 0], [ok |-> TRUE, val |-> u] }

\* let mut last_observed_timestamp = Duration::from_secs(0);
\* match get_uptime() { Ok(uptime) => last_observed_timestamp = uptime, .. }
InitialWatermark(r) == IF r.ok THEN r.val ELSE 0

\* pid_max as the kernel writes it: the number and a newline.
PidMaxFileOf(n) == [readable |-> TRUE, content |-> Append(I32ToString(n), "\n")]

\* Nothing has run yet: the cache is empty, no flag is set, no local holds
\* anything.
Idle ==
  /\ procs = << >>
  /\ lock = "free"
  /\ poisoned = FALSE
  /\ term_b = FALSE
  /\ term_d = FALSE
  /\ sig = "none"
  /\ listed = {}
  /\ report_b = "none"
  /\ taken = 0
  /\ entry = NoEntry
  /\ tok_pos = 0
  /\ pid_found = FALSE
  /\ pid = 0
  /\ full_cmdline = ""
  /\ oom_event = NoEvent
  /\ attempts = << >>
  /\ last_result = NoResult
  /\ lookups = 0
  /\ outcome = "none"
  /\ events = << >>
  /\ misses = << >>
  /\ report_d = "none"

\* The state when both threads have been spawned, but for the configuration
\* and for what startup read.
Start ==
  /\ Idle
  /\ pc_b = "check"
  /\ pc_d = "check"
  /\ last_observed_timestamp \in 0..MaxUptime
  /\ pc_main = "join_b"

\* Startup went well: pid_max and the uptime were read.
Booted ==
  /\ pid_max_file = PidMaxFileOf(PidMax)
  /\ pid_max = get_pid_max(pid_max_file).val
  /\ uptime = last_observed_timestamp

Init == Start /\ config \in RunConfigs /\ Booted

\* ------------------------------------------------------ procs_browser

\* while !term_b.load(Ordering::Relaxed)
BCheck ==
  /\ pc_b = "check"
  /\ pc_b' = IF term_b THEN "done" ELSE "lock"
  /\ report_b' = "none"
  /\ UNCHANGED << procs, lock, poisoned, sig_vars, listed, d_vars, boot_vars, pc_main >>

\* procs_b.lock(): blocks while the watcher holds the Mutex; Err on a
\* poisoned Mutex, whose guard is dropped with the error.
BLock ==
  /\ pc_b = "lock"
  /\ lock = "free"
  /\ IF poisoned
       THEN /\ report_b' = "lock_failed"
            /\ pc_b' = "sleep"
            /\ lock' = lock
       ELSE /\ report_b' = report_b
            /\ pc_b' = "enum"
            /\ lock' = "b"
  /\ UNCHANGED << procs, poisoned, sig_vars, listed, d_vars, boot_vars, pc_main >>

\* An error arm that empties the cache.
EnumErrorArm_Clear(cache) == << >>

\* Err(e) => error!("Could not list the processes ..."): the cache as it was.
EnumErrorArm(cache) == cache

\* procfs::process::all_processes(): the list, or an error that is reported
\* and ends the cycle.
BEnumerate ==
  /\ pc_b = "enum"
  /\ \E ok \in BOOLEAN :
       IF ok
         THEN /\ pc_b' = "put"
              /\ UNCHANGED << report_b, lock, procs >>
         ELSE /\ pc_b' = "sleep"
              /\ report_b' = "enum_failed"
              /\ lock' = "free"
              /\ procs' = EnumErrorArm(procs)
  /\ listed' = {}
  /\ UNCHANGED << poisoned, sig_vars, d_vars, boot_vars, pc_main >>

\* A guard taken for one put only.
GuardInBatch_PerPut == "free"

\* Ok(mut procs) => ..: the guard lives across the whole for loop.
GuardInBatch == "b"

\* One iteration of for proc in procs_list, on the process p whose cmdline()
\* gives res: procs.put(pid, cmdline).
BPutOn(p, res) ==
  /\ pc_b = "put"
  /\ p \notin listed
  /\ procs' = LruPut(procs, pid_max, p, CmdlineOf(res))
  /\ listed' = listed \cup {p}
  /\ lock' = GuardInBatch
  /\ UNCHANGED << poisoned, sig_vars, pc_b, report_b, d_vars, boot_vars, pc_main >>

BPut == \E p \in Pids, res \in CmdlineResults : BPutOn(p, res)

\* The list is exhausted: the guard goes out of scope.
BRelease ==
  /\ pc_b = "put"
  /\ lock' = "free"
  /\ pc_b' = "sleep"
  /\ listed' = {}
  /\ UNCHANGED << procs, poisoned, sig_vars, report_b, d_vars, boot_vars, pc_main >>

\* std::thread::sleep(sleep_time_b)
BSleep ==
  /\ pc_b = "sleep"
  /\ pc_b' = "check"
  /\ UNCHANGED << procs, lock, poisoned, sig_vars, listed, report_b, d_vars,
                  boot_vars, pc_main >>

\* ------------------------------------------------------ dmesg_browser

\* while !term_d.load(Ordering::Relaxed)
DCheck ==
  /\ pc_d = "check"
  /\ pc_d' = IF term_d THEN "done" ELSE "lock"
  /\ report_d' = "none"
  /\ UNCHANGED << procs, lock, poisoned, w_rest, last_observed_timestamp, taken,
                  line_vars, send_vars, outcome, events, misses >>

\* procs_d.lock(): the guard lives until the end of the match arm, that is
\* until every entry of this cycle has been handled.
DLock ==
  /\ pc_d = "lock"
  /\ lock = "free"
  /\ IF poisoned
       THEN /\ report_d' = "lock_failed"
            /\ pc_d' = "sleep"
            /\ lock' = lock
       ELSE /\ report_d' = report_d
            /\ pc_d' = "read"
            /\ lock' = "d"
  /\ UNCHANGED << procs, poisoned, w_rest, last_observed_timestamp, taken,
                  line_vars, send_vars, outcome, events, misses >>

\* log_entries(Backend::Default, true): the entries, or an error that is
\* reported and leaves entries empty.
DRead ==
  /\ pc_d = "read"
  /\ \E ok \in BOOLEAN :
       IF ok
         THEN /\ pc_d' = "entries"
              /\ UNCHANGED << report_d, lock >>
         ELSE /\ pc_d' = "sleep"
              /\ report_d' = "read_failed"
              /\ lock' = "free"
  /\ taken' = 0
  /\ outcome' = "none"
  /\ UNCHANGED << procs, poisoned, w_rest, last_observed_timestamp, line_vars,
                  send_vars, events, misses >>

\* A skip test that lets an entry at the watermark through.
Seen_Strict(ts, watermark) == ts < watermark

\* if timestamp_from_system_start <= last_observed_timestamp { continue }
Seen(ts, watermark) == ts <= watermark

\* A watermark that is never moved.
NewWatermark_Stale(ts, watermark) == watermark

\* last_observed_timestamp = timestamp_from_system_start
NewWatermark(ts, watermark) == ts

\* One iteration of for entry in entries on the entry e, up to the signature
\* test: an entry the watermark has reached is skipped, any other moves the
\* watermark and, when it carries the signature, has its line scanned.
DEntryOn(e) ==
  /\ pc_d = "entries"
  /\ taken < MaxEntries
  /\ taken' = taken + 1
  /\ IF Seen(TimestampOf(e), last_observed_timestamp)
       THEN /\ outcome' = "skipped"
            /\ UNCHANGED << last_observed_timestamp, pc_d, entry, tok_pos >>
       ELSE /\ last_observed_timestamp' =
                 NewWatermark(TimestampOf(e), last_observed_timestamp)
            /\ IF HasSignature[e.msg]
                 THEN /\ pc_d' = "tokens"
                      /\ entry' = e
                      /\ tok_pos' = 1
                      /\ outcome' = "scanning"
                 ELSE /\ outcome' = "no match"
                      /\ UNCHANGED << pc_d, entry, tok_pos >>
  /\ UNCHANGED << procs, lock, poisoned, w_rest, pid_found, pid, full_cmdline,
                  lookups, send_vars, events, misses, report_d >>

DEntry == \E e \in Entries : DEntryOn(e)

\* The entries are exhausted: the guard goes out of scope.
DRelease ==
  /\ pc_d = "entries"
  /\ pc_d' = "sleep"
  /\ lock' = "free"
  /\ taken' = 0
  /\ outcome' = "none"
  /\ UNCHANGED << procs, poisoned, w_rest, last_observed_timestamp, line_vars,
                  send_vars, events, misses, report_d >>

\* A scan that goes on to the later numeric tokens.
BreakScan_Never(found) == FALSE

\* if pid_found { break }
BreakScan(found) == found

\* for part in lowercase_message.split_whitespace(), from tok_pos up to the
\* next all-numeric token: the end of the line, the break, the panic of
\* parse::<i32>().unwrap(), or the lookup with its miss or its hit (get,
\* clone, pop).
DTokens ==
  /\ pc_d = "tokens"
  /\ LET parts == Parts[entry.msg]
         k == NextNumeric(parts, tok_pos)
     IN IF k = 0 \/ BreakScan(pid_found)
          THEN /\ pc_d' = "entries"
               /\ entry' = NoEntry
               /\ tok_pos' = 0
               /\ pid_found' = FALSE
               /\ outcome' = IF pid_found THEN outcome ELSE "no pid"
               /\ pid' = 0
               /\ lookups' = 0
               /\ UNCHANGED << procs, lock, poisoned, full_cmdline, misses >>
          ELSE LET r == ParseI32(parts[k])
               IN IF ~r.ok
                    THEN /\ pc_d' = "panicked"
                         /\ lock' = "free"
                         /\ poisoned' = TRUE
                         /\ outcome' = "panic"
                         /\ UNCHANGED << procs, entry, tok_pos, pid_found, pid,
                                         full_cmdline, lookups, misses >>
                    ELSE /\ pid_found' = TRUE
                         /\ tok_pos' = k + 1
                         /\ lookups' = lookups + 1
                         /\ pid' = r.val
                         /\ UNCHANGED << lock, poisoned, entry >>
                         /\ IF HasPid(procs, r.val)
                              THEN /\ full_cmdline' = ValueOf(procs, r.val)
                                   /\ procs' = LruPop(LruGet(procs, r.val), r.val)
                                   /\ pc_d' = "build"
                                   /\ outcome' = "hit"
                                   /\ misses' = misses
                              ELSE /\ misses' = Append(misses, TimestampOf(entry))
                                   /\ procs' = LruGet(procs, r.val)
                                   /\ outcome' = "miss"
                                   /\ UNCHANGED << full_cmdline, pc_d >>
  /\ oom_event' = NoEvent
  /\ attempts' = << >>
  /\ last_result' = NoResult
  /\ UNCHANGED << w_rest, last_observed_timestamp, taken, events, report_d >>

\* let oom_event = build_oom_event(pid, full_cmdline)
DBuild ==
  /\ pc_d = "build"
  /\ \E h \in Hostnames, k \in KernelVersions, now \in WallClockMillis :
       oom_event' = build_oom_event(pid, full_cmdline, h, k, now)
  /\ events' = Append(events, TimestampOf(entry))
  /\ pc_d' = "es"
  /\ full_cmdline' = ""
  /\ UNCHANGED << procs, lock, poisoned, w_rest, last_observed_timestamp, taken,
                  entry, tok_pos, pid_found, pid, lookups, attempts, last_result,
                  outcome, misses, report_d >>

\* ------------------------------------------------------ the four sends

\* What a step of the dispatch leaves alone.
SendFrame ==
  UNCHANGED << procs, lock, poisoned, w_rest, last_observed_timestamp, taken,
               line_vars, oom_event, outcome, events, misses, report_d >>

\* What elasticsearch_notifier returns: Err for a transport error, Ok(status)
\* for any response.
EsOutcomes == { "transport error", "201 Created", "500 Internal Server Error" }

EsResult(o) == IF o = "transport error" THEN "Err" ELSE "Ok"

\* What slack_notifier returns: Ok for status 200, Err for any other status
\* and for a transport error.
SlackOutcomes == { "transport error", "200", "500" }

SlackResult(o) == IF o = "200" THEN "Ok" ELSE "Err"

\* What syslog_notifier returns: Err at once for a protocol it does not know.
SyslogResults(proto) ==
  IF proto \in { "unix", "tcp", "udp" } THEN { "Ok", "Err" } ELSE { "Err" }

\* The sink after sink in the dispatch; the scan of the line goes on after the
\* last.
AfterSink(sink) ==
  CASE sink = "es" -> "slack"
    [] sink = "slack" -> "kafka"
    [] sink = "kafka" -> "syslog"
    [] sink = "syslog" -> "tokens"

\* Runtime::new() is what the search-index and the webhook send start with.
NeedsRuntime(sink) == sink \in { "es", "slack" }

\* A dispatch that gives the event up at the first failed send.
Resume_AbortOnErr(sink, r) == IF r = "Err" THEN "tokens" ELSE AfterSink(sink)

\* match <send> { Err(e) => error!(..), _ => info!(..) }: either arm falls
\* through to the next sink.
Resume(sink, r) == AfterSink(sink)

\* if <the sink's fields are set> { ... }: the send starts, or the runtime it
\* needs cannot be created, which is reported; a sink not enabled is passed
\* over.
Dispatch(sink) ==
  /\ pc_d = sink
  /\ IF Enabled(config, sink)
       THEN /\ attempts' = Append(attempts, sink)
            /\ \E rt \in BOOLEAN :
                 IF rt \/ ~NeedsRuntime(sink)
                   THEN /\ pc_d' = "send_" \o sink
                        /\ last_result' = last_result
                   ELSE /\ pc_d' = Resume(sink, "Err")
                        /\ last_result' =
                             [sink |-> sink, result |-> "Err", status |-> "no runtime"]
       ELSE /\ pc_d' = AfterSink(sink)
            /\ UNCHANGED << attempts, last_result >>
  /\ SendFrame

\* The send returns r, with the status st where it has one.
Return(sink, r, st) ==
  /\ pc_d = "send_" \o sink
  /\ last_result' = [sink |-> sink, result |-> r, status |-> st]
  /\ pc_d' = Resume(sink, r)
  /\ attempts' = attempts
  /\ SendFrame

DEs == Dispatch("es")

\* rt.block_on(notifiers::elasticsearch_notifier(..)) returns.
DEsReturn == \E o \in EsOutcomes : Return("es", EsResult(o), o)

DSlack == Dispatch("slack")

\* rt.block_on(notifiers::slack_notifier(..)) returns.
DSlackReturn == \E o \in SlackOutcomes : Return("slack", SlackResult(o), o)

DKafka == Dispatch("kafka")

\* notifiers::kafka_notifier(..) returns.
DKafkaReturn == \E r \in { "Ok", "Err" } : Return("kafka", r, "")

DSyslog == Dispatch("syslog")

\* notifiers::syslog_notifier(..) returns.
DSyslogReturn ==
  \E r \in SyslogResults(config.syslog_proto) : Return("syslog", r, "")

\* match result { Err(e) => error!(..), _ => info!(..) }
LoggedAs(result) == IF result = "Err" THEN "error" ELSE "info"

\* std::thread::sleep(sleep_time_d)
DSleep ==
  /\ pc_d = "sleep"
  /\ pc_d' = "check"
  /\ UNCHANGED << procs, lock, poisoned, w_rest, last_observed_timestamp, taken,
                  line_vars, send_vars, outcome, events, misses, report_d >>

\* ------------------------------------------------- signals and main

\* SIGTERM or SIGINT is delivered: the handler sets every flag registered for
\* the signal, term_b and term_d.
Signal ==
  /\ sig = "none"
  /\ pc_main \in { "join_b", "join_d" }
  /\ sig' = "delivered"
  /\ term_b' = TRUE
  /\ term_d' = TRUE
  /\ UNCHANGED << procs, lock, poisoned, b_vars, d_vars, boot_vars, pc_main >>

\* procs_browser.join().expect(..)
JoinB ==
  /\ pc_main = "join_b"
  /\ pc_b = "done"
  /\ pc_main' = "join_d"
  /\ UNCHANGED << procs, lock, poisoned, sig_vars, b_vars, d_vars, boot_vars >>

\* dmesg_browser.join().expect(..): main returns, or panics when the watcher
\* panicked.
JoinD ==
  /\ pc_main = "join_d"
  /\ pc_d \in { "done", "panicked" }
  /\ pc_main' = IF pc_d = "done" THEN "exited" ELSE "aborted"
  /\ UNCHANGED << procs, lock, poisoned, sig_vars, b_vars, d_vars, boot_vars >>

Next ==
  \/ BCheck \/ BLock \/ BEnumerate \/ BPut \/ BRelease \/ BSleep
  \/ DCheck \/ DLock \/ DRead \/ DEntry \/ DRelease \/ DTokens \/ DBuild
  \/ DEs \/ DEsReturn \/ DSlack \/ DSlackReturn \/ DKafka \/ DKafkaReturn
  \/ DSyslog \/ DSyslogReturn \/ DSleep
  \/ Signal \/ JoinB \/ JoinD

Spec == Init /\ [][Next]_vars

\* The scheduling: a thread that can take a step takes one, and a thread
\* waiting for the Mutex gets it when it is free again and again; nothing
\* makes a send return.
RefresherStep == BCheck \/ BLock \/ BEnumerate \/ BPut \/ BRelease \/ BSleep

WatcherLocalStep ==
  \/ DCheck \/ DLock \/ DRead \/ DEntry \/ DRelease \/ DTokens \/ DBuild
  \/ DEs \/ DSlack \/ DKafka \/ DSyslog \/ DSleep

FairSpec ==
  /\ Spec
  /\ WF_vars(RefresherStep)
  /\ SF_vars(BLock)
  /\ WF_vars(WatcherLocalStep)
  /\ SF_vars(DLock)
  /\ WF_vars(JoinB \/ JoinD)

\* The dispatch of one event under every configuration: the watcher holds the
\* Mutex and stands before the scan of "OUT OF MEMORY: kill 2 1", taken at
\* timestamp 2, the refresher waits for the Mutex, and the cache holds pid 2,
\* alone or with pid 1.
DispatchInit ==
  /\ procs \in { << [pid |-> 2, cmdline |-> "nginx: worker"] >>,
                 << [pid |-> 1, cmdline |-> "No such process"],
                    [pid |-> 2, cmdline |-> "nginx: worker"] >> }
  /\ uptime = 0
  /\ pid_max_file = PidMaxFileOf(PidMax)
  /\ pid_max = PidMax
  /\ lock = "d"
  /\ poisoned = FALSE
  /\ term_b = FALSE
  /\ term_d = FALSE
  /\ sig = "none"
  /\ pc_b = "lock"
  /\ listed = {}
  /\ report_b = "none"
  /\ pc_d = "tokens"
  /\ last_observed_timestamp = 2
  /\ config \in Configs
  /\ taken = 1
  /\ entry = [ts |-> << 2 >>, msg |-> 2]
  /\ tok_pos = 1
  /\ pid_found = FALSE
  /\ pid = 0
  /\ full_cmdline = ""
  /\ oom_event = NoEvent
  /\ attempts = << >>
  /\ last_result = NoResult
  /\ lookups = 0
  /\ outcome = "scanning"
  /\ events = << >>
  /\ misses = << >>
  /\ report_d = "none"
  /\ pc_main = "join_b"

DispatchNext ==
  \/ DTokens \/ DBuild
  \/ DEs \/ DEsReturn \/ DSlack \/ DSlackReturn \/ DKafka \/ DKafkaReturn
  \/ DSyslog \/ DSyslogReturn

DispatchSpec == DispatchInit /\ [][DispatchNext]_vars

\* The same scheduling from the middle of a cycle of the watcher, under the
\* configurations of Init: what the refresher can do while the watcher scans
\* and dispatches.
StallInit == DispatchInit /\ config \in RunConfigs

StallSpec ==
  /\ StallInit
  /\ [][Next]_vars
  /\ WF_vars(RefresherStep)
  /\ SF_vars(BLock)
  /\ WF_vars(WatcherLocalStep)
  /\ SF_vars(DLock)
  /\ WF_vars(JoinB \/ JoinD)

\* ------------------------------------------------- startup, step by step

\* match get_pid_max() { Ok(p_max) => pid_max = p_max, Err(e) => exit(1) },
\* the unwrap inside get_pid_max panicking in main.
MainPidMax ==
  /\ pc_main = "start"
  /\ LET r == get_pid_max(pid_max_file)
     IN /\ pc_main' = CASE r.kind = "Ok" -> "spawn"
                         [] r.kind = "Err" -> "exit_1"
                         [] r.kind = "panic" -> "panicked"
        /\ pid_max' = IF r.kind = "Ok" THEN r.val ELSE pid_max
  /\ UNCHANGED << procs, lock, poisoned, sig_vars, b_vars, d_vars, config, uptime,
                  pid_max_file >>

\* LruCache::new(pid_max), the flags, and the two thread::spawn.
MainSpawn ==
  /\ pc_main = "spawn"
  /\ pc_main' = "join_b"
  /\ pc_b' = "check"
  /\ pc_d' = "init"
  /\ procs' = << >>
  /\ UNCHANGED << lock, poisoned, sig_vars, listed, report_b, boot_vars,
                  last_observed_timestamp, taken, line_vars, send_vars, outcome,
                  events, misses, report_d >>

\* The watcher before its loop: the watermark from get_uptime, the options.
DInit ==
  /\ pc_d = "init"
  /\ \E r \in get_uptime(uptime) :
       /\ last_observed_timestamp' = InitialWatermark(r)
       /\ report_d' = IF r.ok THEN "none" ELSE "uptime_failed"
  /\ pc_d' = "check"
  /\ UNCHANGED << procs, lock, poisoned, w_rest, taken, line_vars, send_vars,
                  outcome, events, misses >>

\* The process from its first statement to the two loops.
StartupInit ==
  /\ Idle
  /\ pc_main = "start"
  /\ pc_b = "unspawned"
  /\ pc_d = "unspawned"
  /\ last_observed_timestamp = 0
  /\ config \in RunConfigs
  /\ uptime \in 0..MaxUptime
  /\ pid_max_file \in PidMaxFiles
  /\ pid_max = 0

StartupNext == MainPidMax \/ MainSpawn \/ DInit

StartupSpec == StartupInit /\ [][StartupNext]_vars

\* The whole system from the watcher's first statement, whatever get_uptime
\* returns, every sink enabled.
WatcherStartInit ==
  /\ Idle
  /\ pc_main = "join_b"
  /\ pc_b = "check"
  /\ pc_d = "init"
  /\ last_observed_timestamp = 0
  /\ config \in { c \in RunConfigs : c.syslog_proto = "tcp" }
  /\ uptime \in 0..MaxUptime
  /\ pid_max_file = PidMaxFileOf(PidMax)
  /\ pid_max = PidMax

WatcherStartSpec == WatcherStartInit /\ [][DInit \/ Next]_vars

\* ------------------------------------------------------------ the claims

\* How often x occurs in seq.
Occurrences(seq, x) == Cardinality({ i \in 1..Len(seq) : seq[i] = x })

\* The position of the first all-numeric token of message m, 0 when it has
\* none.
CandidateIndex(m) ==
  LET idx == { i \in 1..Len(Parts[m]) : is_string_numeric(Parts[m][i]) }
  IN IF idx = {} THEN 0 ELSE CHOOSE i \in idx : \A j \in idx : i <= j

\* The first all-numeric token of message m as parse::<i32>() reads it.
Candidate(m) ==
  IF CandidateIndex(m) = 0 THEN NoInt ELSE ParseI32(Parts[m][CandidateIndex(m)])

\* A step of the watcher.
WatcherStep == d_vars' # d_vars \/ (lock = "d") # (lock' = "d")

\* The decimal rendering of n >= 0: it reads back as n and has no leading zero.
Renders(str, n) ==
  /\ ParseI32(str) = [ok |-> TRUE, val |-> n]
  /\ Len(str) > 1 => str[1] # "0"

\* The watcher stands before the scan of a matching line whose first numeric
\* token is a pid the cache holds.
AboutToHit ==
  /\ pc_d = "tokens"
  /\ ~pid_found
  /\ Candidate(entry.msg).ok
  /\ HasPid(procs, Candidate(entry.msg).val)

\* The watcher takes an entry from the entries read.
TakesEntry == pc_d = "entries" /\ taken' = taken + 1

C1_Entry ==
  TakesEntry =>
    \A e \in Entries :
      (TimestampOf(e) > last_observed_timestamp /\ HasSignature[e.msg] /\ DEntryOn(e))
        => /\ last_observed_timestamp' = TimestampOf(e)
           /\ entry' = e
           /\ pc_d' = "tokens"
           /\ Occurrences(events, TimestampOf(e)) = 0

C1_Lookup ==
  (AboutToHit /\ WatcherStep)
    => /\ pc_d' = "build"
       /\ pid' = Candidate(entry.msg).val
       /\ full_cmdline' = ValueOf(procs, pid')
       /\ ~HasPid(procs', pid')
       /\ last_observed_timestamp' = TimestampOf(entry)
       /\ events' = events

C1_Build ==
  (pc_d = "build" /\ WatcherStep)
    => /\ Renders(oom_event'.pid, pid)
       /\ oom_event'.cmdline = full_cmdline
       /\ events' = Append(events, TimestampOf(entry))
       /\ Occurrences(events', TimestampOf(entry)) = 1
       /\ last_observed_timestamp' = TimestampOf(entry)
       /\ ~HasPid(procs', pid)

\* C1: a processed entry (timestamp above the watermark, carrying the
\* signature) whose first all-numeric token is a pid p the cache maps to c
\* moves the watermark to its timestamp, has p looked up and evicted in one
\* step, and has exactly one event built for it, with pid = p rendered as a
\* string and cmdline = c.
C1_OneShotCorrelation == [][C1_Entry /\ C1_Lookup /\ C1_Build]_vars

\* "OUT OF MEMORY: kill 2 1" at timestamp 2 with 2 -> "nginx: worker" cached:
\* the event is built, pid 2 has left the cache.
C1_Witness ==
  /\ pc_d = "es"
  /\ entry = [ts |-> << 2 >>, msg |-> 2]
  /\ last_observed_timestamp = 2
  /\ oom_event.pid = << "2" >>
  /\ oom_event.cmdline = "nginx: worker"
  /\ Occurrences(events, 2) = 1
  /\ ~HasPid(procs, 2)

C2_Skip ==
  (TakesEntry /\ \E e \in Entries :
                   TimestampOf(e) <= last_observed_timestamp /\ DEntryOn(e))
        => /\ events' = events
           /\ misses' = misses
           /\ procs' = procs
           /\ last_observed_timestamp' = last_observed_timestamp
           /\ pc_d' = "entries"
           /\ UNCHANGED << line_vars, send_vars, report_d >>

C2_Fresh ==
  /\ Len(events') + Len(misses') <= Len(events) + Len(misses) + 1
  /\ events' # events
       => /\ events' = Append(events, last_observed_timestamp)
          /\ Occurrences(events \o misses, last_observed_timestamp) = 0
  /\ misses' # misses
       => /\ misses' = Append(misses, last_observed_timestamp)
          /\ Occurrences(events \o misses, last_observed_timestamp) = 0

\* C2: an entry whose timestamp is at or below the watermark is skipped: the
\* step that takes it builds no event, reports no miss, and leaves the cache,
\* the watermark and the scan untouched, whatever the refresher did before;
\* and no timestamp gets an event or a miss report twice.
C2_IdempotentPolling == [][C2_Skip /\ C2_Fresh]_vars

\* An event was built for the entry of timestamp 2, and an entry was taken
\* and skipped in a later poll cycle, the cache refreshed in between.
C2_Witness ==
  /\ events = << 2 >>
  /\ last_observed_timestamp = 2
  /\ outcome = "skipped"
  /\ taken = 1
  /\ procs # << >>

\* The places of the watcher where it builds the event or sends it.
BuildingOrSending ==
  { "build", "send_es", "send_slack", "send_kafka", "send_syslog" }

\* C3: while the watcher builds the event or is inside a send, it does not
\* hold the Mutex of the cache.
C3_LockNotHeldAcrossSend == pc_d \in BuildingOrSending => lock # "d"

Sending == { "send_es", "send_slack", "send_kafka", "send_syslog" }

\* C4: while the watcher is inside a send, the send returns or the refresher
\* gets the Mutex of the cache (or has been told to stop and has stopped).
C4_RefresherNotStalled ==
  (pc_d \in Sending) ~> (pc_d \notin Sending \/ lock = "b" \/ pc_b = "done")

\* The watcher stands before the scan of a matching line whose first numeric
\* token is a pid the cache does not hold.
AboutToMiss ==
  /\ pc_d = "tokens"
  /\ ~pid_found
  /\ Candidate(entry.msg).ok
  /\ ~HasPid(procs, Candidate(entry.msg).val)

C5_Miss ==
  (AboutToMiss /\ WatcherStep)
    => /\ misses' = Append(misses, TimestampOf(entry))
       /\ Occurrences(misses', TimestampOf(entry)) = 1
       /\ events' = events
       /\ procs' = procs
       /\ oom_event' = NoEvent
       /\ attempts' = << >>
       /\ pc_d' = "tokens"
       /\ outcome' = "miss"

C5_AfterMiss ==
  (pc_d = "tokens" /\ outcome = "miss" /\ WatcherStep)
    => /\ pc_d' = "entries"
       /\ UNCHANGED << procs, events, misses, send_vars >>

C5_Dropped ==
  \A i \in 1..Len(events) : \A j \in 1..Len(misses) : events[i] # misses[j]

\* C5: a matching line whose candidate pid the cache does not hold gets no
\* event and no send, exactly one miss report, and leaves the cache as it
\* was; no entry that got a miss report ever gets an event, whatever is put
\* into the cache later.
C5_CorrelationMiss == [][C5_Miss /\ C5_AfterMiss /\ C5_Dropped /\ C5_Dropped']_vars

\* The entry of timestamp 1 got a miss report and no event; both pids have
\* been put into the cache since, and the entry, returned again, was skipped.
C5_Witness ==
  /\ misses = << 1 >>
  /\ events = << >>
  /\ HasPid(procs, 1)
  /\ HasPid(procs, 2)
  /\ last_observed_timestamp = 1
  /\ outcome = "skipped"

C6_First ==
  (pc_d = "tokens" /\ lookups' > lookups)
    => /\ lookups = 0
       /\ lookups' = 1
       /\ CandidateIndex(entry.msg) # 0
       /\ pid' = Candidate(entry.msg).val
       /\ tok_pos' = CandidateIndex(entry.msg) + 1

C6_NoPid ==
  (pc_d = "tokens" /\ CandidateIndex(entry.msg) = 0 /\ WatcherStep)
    => /\ pc_d' = "entries"
       /\ outcome' = "no pid"
       /\ lookups' = 0
       /\ last_observed_timestamp' = TimestampOf(entry)
       /\ UNCHANGED << procs, events, misses, send_vars, report_d, poisoned >>

C6_AtMostOne ==
  /\ lookups <= 1
  /\ \A i, j \in 1..Len(events) : events[i] = events[j] => i = j
  /\ pc_d = "tokens" => last_observed_timestamp = TimestampOf(entry)

\* C6: the pid looked up for a matching line is its first all-numeric token;
\* the later numeric tokens are not looked up, so an entry has at most one
\* lookup and at most one event; a matching line with no numeric token gets
\* no lookup, no event, no miss report and no error report, the watermark
\* being at its timestamp.
C6_FirstNumericToken == [][C6_First /\ C6_NoPid /\ C6_AtMostOne /\ C6_AtMostOne']_vars

\* "Out of memory: Killed process 1 (a) uid 0": 1 has been looked up, the
\* scan stands before the rest of the line, where 0 is.
C6_Witness ==
  /\ pc_d = "tokens"
  /\ entry.msg = 1
  /\ pid_found
  /\ pid = 1
  /\ lookups = 1
  /\ NextNumeric(Parts[1], tok_pos) # 0

C7_Monotone == last_observed_timestamp' >= last_observed_timestamp

C7_OnlyEntries ==
  last_observed_timestamp' # last_observed_timestamp
    => /\ TakesEntry
       /\ \E e \in Entries :
            /\ TimestampOf(e) = last_observed_timestamp'
            /\ DEntryOn(e)

C7_Processed ==
  TakesEntry =>
    \A e \in Entries :
      (TimestampOf(e) > last_observed_timestamp /\ DEntryOn(e))
        => last_observed_timestamp' = TimestampOf(e)

C7_Scanned ==
  pc_d \in { "tokens", "build", "es", "slack", "kafka", "syslog" } \cup Sending
    => last_observed_timestamp = TimestampOf(entry)

\* C7: the watermark never decreases; only the step that takes an entry
\* changes it; and after an entry above the watermark has been taken, match
\* or not, hit or miss, the watermark is that entry's timestamp.
C7_WatermarkMonotone ==
  [][C7_Monotone /\ C7_OnlyEntries /\ C7_Processed /\ C7_Scanned]_vars

\* A second entry of the cycle, without the signature, moved the watermark
\* to 2.
C7_Witness ==
  /\ last_observed_timestamp = 2
  /\ outcome = "no match"
  /\ taken = 2
  /\ pc_d = "entries"

\* The places of the dispatch of one event, in order, and how many sinks of
\* SinkOrder the dispatch has passed or entered at each.
SinksReached(place) ==
  CASE place = "es" -> 0
    [] place \in { "send_es", "slack" } -> 1
    [] place \in { "send_slack", "kafka" } -> 2
    [] place \in { "send_kafka", "syslog" } -> 3
    [] place \in { "send_syslog", "tokens" } -> 4

\* The dispatch of the event built last is over: the scan of the line goes on.
DispatchDone == pc_d = "tokens" /\ oom_event # NoEvent

InDispatch == pc_d \in { "es", "slack", "kafka", "syslog" } \cup Sending

\* The enabled sinks among the first n of the dispatch, in order.
EnabledAmong(n) ==
  SelectSeq(SubSeq(SinkOrder, 1, n), LAMBDA s : Enabled(config, s))

C8_EachOnce ==
  (InDispatch \/ DispatchDone) => attempts = EnabledAmong(SinksReached(pc_d))

C8_GoesOn ==
  \A s \in { "es", "slack", "kafka", "syslog" } :
    /\ (pc_d = "send_" \o s /\ WatcherStep)
         => /\ pc_d' = AfterSink(s)
            /\ last_result'.sink = s
            /\ last_result'.result \in { "Ok", "Err" }
            /\ UNCHANGED << procs, lock, poisoned, events, misses, oom_event,
                            last_observed_timestamp, entry >>
    /\ (pc_d = s /\ WatcherStep)
         => /\ pc_d' \in { "send_" \o s, AfterSink(s) }
            /\ UNCHANGED << procs, lock, poisoned, events, misses, oom_event,
                            last_observed_timestamp, entry >>

\* C8: whatever the sends before it returned, the sinks an event has been
\* sent to are the enabled sinks the dispatch has reached, each once and in
\* order; a send that returns, Ok or Err, is followed by the next sink, and
\* the last by the scan of the line, the watcher's thread alive and the Mutex
\* not poisoned.
C8_SinkFailuresIsolated == [][C8_EachOnce /\ C8_EachOnce' /\ C8_GoesOn]_vars

\* Every sink enabled: the search-index and the webhook sends were made, the
\* broker send failed, and the syslog send is under way.
C8_Witness ==
  /\ pc_d = "send_syslog"
  /\ attempts = << "es", "slack", "kafka", "syslog" >>
  /\ last_result = [sink |-> "kafka", result |-> "Err", status |-> ""]

\* The sinks an event has been sent to.
Attempted(sink) == \E i \in 1..Len(attempts) : attempts[i] = sink

C9_Rule(sink) ==
  CASE sink = "es" ->
         config.elasticsearch_server # "" /\ config.elasticsearch_index # ""
    [] sink = "slack" ->
         config.slack_webhook # "" /\ config.slack_channel # ""
    [] sink = "kafka" ->
         config.kafka_topic # "" /\ config.kafka_brokers # ""
    [] sink = "syslog" ->
         \/ config.syslog_proto = "unix"
         \/ (config.syslog_proto # "" /\ config.syslog_server # "")

\* C9: a sink is sent to only under its rule (server and index; url and
\* channel; topic and brokers; protocol "unix", or protocol and server), and
\* when the dispatch of an event is over, every sink under its rule has been
\* sent to once; whatever the configuration, the event was built and its pid
\* has left the cache.
C9_SinkEnablement ==
  /\ \A s \in { "es", "slack", "kafka", "syslog" } : Attempted(s) => C9_Rule(s)
  /\ DispatchDone
       => /\ \A s \in { "es", "slack", "kafka", "syslog" } :
               C9_Rule(s) <=> Occurrences(attempts, s) = 1
          /\ events = << 2 >>
          /\ oom_event.pid = << "2" >>
          /\ ~HasPid(procs, 2)

\* Protocol "unix" with no server, a topic with no brokers and nothing else
\* set: the event went to syslog alone.
C9_Witness ==
  /\ DispatchDone
  /\ config = Config("unix", "", "", "", "", "oom", "", "")
  /\ attempts = << "syslog" >>
  /\ events = << 2 >>

\* C10: as long as no signal has been delivered, neither poller has left its
\* loop.
C10_NoExitBeforeSignal ==
  sig = "none" => (pc_b # "done" /\ pc_d \notin { "done", "panicked" })

\* C11: whatever the entries read carry, the watcher's thread never panics
\* and the Mutex of the cache is never poisoned.
C11_NothingStopsAPoller == pc_d # "panicked" /\ ~poisoned

C12_EnumFailure ==
  (pc_b = "enum" /\ report_b' = "enum_failed")
    => /\ listed = {}
       /\ procs' = procs
       /\ lock' = "free"
       /\ pc_b' = "sleep"

C12_ReadFailure ==
  (pc_d = "read" /\ report_d' = "read_failed")
    => /\ taken' = 0
       /\ pc_d' = "sleep"
       /\ lock' = "free"
       /\ UNCHANGED << procs, last_observed_timestamp, events, misses, line_vars,
                       send_vars >>

C12_NextCycle ==
  /\ (pc_b = "sleep" /\ pc_b' # pc_b) => (pc_b' = "check" /\ procs' = procs)
  /\ (pc_b = "check" /\ pc_b' # pc_b) => pc_b' = (IF term_b THEN "done" ELSE "lock")
  /\ (pc_d = "sleep" /\ pc_d' # pc_d)
       => (pc_d' = "check" /\ UNCHANGED << procs, last_observed_timestamp >>)
  /\ (pc_d = "check" /\ pc_d' # pc_d) => pc_d' = (IF term_d THEN "done" ELSE "lock")
  /\ report_b = "enum_failed" => (pc_b \in { "sleep", "check" } /\ lock # "b")
  /\ report_d = "read_failed" => (pc_d \in { "sleep", "check" } /\ lock # "d")

\* C12: a failed process enumeration is reported and leaves the cache as the
\* cycle found it, a failed ring-buffer read is reported and leaves cache,
\* watermark, events and miss reports as they were with no entry taken; in
\* both cases the lock is released, the poller sleeps, and after the sleep it
\* tests its flag and starts the next cycle with the lock.
C12_FailedCycleSkipped == [][C12_EnumFailure /\ C12_ReadFailure /\ C12_NextCycle]_vars

\* The enumeration failed over a cache that holds processes, and the
\* ring-buffer read failed after an event had been built: both pollers sleep.
C12_Witness ==
  /\ report_b = "enum_failed"
  /\ report_d = "read_failed"
  /\ procs # << >>
  /\ events # << >>
  /\ pc_b = "sleep"
  /\ pc_d = "sleep"

\* C13: every entry that got an event or a miss report has a timestamp above
\* the host's uptime at the watcher's start.
C13_NothingBeforeStart ==
  /\ \A i \in 1..Len(events) : events[i] > uptime
  /\ \A j \in 1..Len(misses) : misses[j] > uptime

\* The entry taken last in this cycle was processed: it moved the watermark,
\* which is therefore above the watermark the cycle started with.
ProcessedInCycle == pc_d = "entries" /\ outcome \notin { "none", "skipped" }

\* C14: an entry retrieved in a cycle with a timestamp above the watermark
\* the cycle started with is processed, wherever the ring buffer returns it:
\* here an entry that follows a processed entry of the same cycle and has
\* that entry's timestamp.
C14_EveryNewEntryProcessed ==
  [][(ProcessedInCycle /\ TakesEntry)
       => \A e \in Entries :
            (TimestampOf(e) = last_observed_timestamp /\ DEntryOn(e))
              => outcome' # "skipped"]_vars

C15_OneHold ==
  /\ lock = "b" <=> pc_b \in { "enum", "put" }
  /\ listed # {} => pc_b = "put"
  /\ pc_b = "sleep" => lock # "b"
  /\ pc_d \in { "read", "entries", "tokens", "es", "slack", "kafka", "syslog" }
               \cup BuildingOrSending
       => lock = "d"

C15_NoLookupInBatch ==
  (pc_b = "put" /\ (procs' # procs \/ lookups' # lookups \/ lock' = "d"))
    => /\ listed' # listed
       /\ lock' = "b"
       /\ UNCHANGED << pc_d, lookups, full_cmdline, events, misses >>

\* C15: the refresher holds the Mutex from its lock() through every put of
\* the cycle and not while it sleeps; while a batch is under way the only
\* steps that touch the cache are the batch's own puts, the watcher, which
\* looks up and evicts only with the Mutex, making no step on the cache.
C15_RefreshBatchAtomic ==
  [][C15_OneHold /\ C15_OneHold' /\ C15_NoLookupInBatch]_vars

\* Two puts of a batch are made, a third process is still to come, and the
\* watcher waits for the Mutex.
C15_Witness ==
  /\ pc_b = "put"
  /\ Cardinality(listed) = 2
  /\ lock = "b"
  /\ pc_d = "lock"
  /\ Len(procs) = 2

\* The pids of a cache, most recently used first.
PidsOf(cache) == [i \in 1..Len(cache) |-> cache[i].pid]

\* The sequence without its elements equal to x.
Except(seq, x) == SelectSeq(seq, LAMBDA y : y # x)

C16_Capacity ==
  /\ Len(procs) <= pid_max
  /\ \A i, j \in 1..Len(procs) : procs[i].pid = procs[j].pid => i = j

C16_Put ==
  pc_b = "put" =>
    \A p \in Pids, res \in CmdlineResults :
      BPutOn(p, res) =>
        LET old == PidsOf(procs)
            kept == IF HasPid(procs, p) \/ Len(procs) < pid_max
                      THEN Except(old, p)
                      ELSE SubSeq(old, 1, Len(old) - 1)
        IN PidsOf(procs') = << p >> \o kept

C16_Lookup ==
  lookups' > lookups => PidsOf(procs') = Except(PidsOf(procs), pid')

\* C16: the cache never holds more entries than pid_max, nor a pid twice; a
\* put makes its pid the most recently used, keeps the order of the others
\* and, when the pid is new and the cache full, drops the least recently used
\* one; a lookup that hits takes its pid out and one that misses changes
\* nothing.
C16_CapacityAndLru == [][C16_Capacity /\ C16_Capacity' /\ C16_Put /\ C16_Lookup]_vars

\* A batch has put three processes into the cache of capacity 2: the first
\* one put has been evicted.
C16_Witness ==
  /\ pc_b = "put"
  /\ listed = { 1, 2, 3 }
  /\ Len(procs) = pid_max
  /\ pid_max = 2

C17_Put ==
  pc_b = "put" =>
    \A p \in Pids, res \in CmdlineResults :
      BPutOn(p, res) =>
        /\ HasPid(procs', p)
        /\ res.ok => ValueOf(procs', p) = res.args[1] \o " " \o res.args[2]
        /\ ~res.ok => ValueOf(procs', p) = res.error
        /\ HasPid(procs, p) => Len(procs') = Len(procs)

C17_OnlyPutsWrite ==
  \A q \in Pids :
    (HasPid(procs, q) /\ HasPid(procs', q) /\ ValueOf(procs', q) # ValueOf(procs, q))
      => (pc_b = "put" /\ q \notin listed /\ listed' = listed \cup { q })

C17_Carried ==
  /\ (pc_d = "tokens" /\ pc_d' = "build") => full_cmdline' = ValueOf(procs, pid')
  /\ (pc_d = "build" /\ pc_d' = "es") => oom_event'.cmdline = full_cmdline

\* C17: a put leaves its pid in the cache with exactly the value of this
\* enumeration (the arguments joined by spaces, or the error's text when
\* cmdline() failed) and, for a pid already present, with as many entries as
\* before; no step but a put of the refresher changes the value of a pid; so
\* the value a hit reads, which the event carries, is the one the last put
\* for that pid wrote.
C17_LatestObservationWins == [][C17_Put /\ C17_OnlyPutsWrite /\ C17_Carried]_vars

\* An event for pid 1 carries the text of the error cmdline() gave for it.
C17_Witness ==
  /\ pc_d = "es"
  /\ oom_event.pid = << "1" >>
  /\ oom_event.cmdline = "No such process"
  /\ HasPid(procs, 2)

DigitChars == { "0", "1", "2", "3", "4", "5", "6", "7", "8", "9" }

\* The text is a non-negative integer in decimal, with or without a "+", and
\* nothing but whitespace around it.
IsCeiling(text) ==
  \E i, j \in 1..Len(text) :
    /\ i <= j
    /\ \A k \in 1..(i - 1) : text[k] \in { " ", "\t", "\n" }
    /\ \A k \in (j + 1)..Len(text) : text[k] \in { " ", "\t", "\n" }
    /\ LET body == SubSeq(text, i, j)
           digits == IF body[1] = "+" THEN Tail(body) ELSE body
       IN /\ digits # << >>
          /\ \A k \in 1..Len(digits) : digits[k] \in DigitChars

\* The digits of text are a decimal writing of n, leading zeros allowed.
Denotes(text, n) ==
  LET digits == SelectSeq(text, LAMBDA c : c \in DigitChars)
  IN \E k \in 0..(Len(digits) - 1) :
       /\ \A i \in 1..k : digits[i] = "0"
       /\ SubSeq(digits, k + 1, Len(digits)) = I32ToString(n)

C19_NonSuccessIsError ==
  (last_result.sink = "es" /\ last_result.status = "500 Internal Server Error")
    => (last_result.result = "Err" /\ LoggedAs(last_result.result) = "error")

\* The places of the watcher inside a cycle, from lock() to the last entry.
MidCycleD ==
  { "lock", "read", "entries", "tokens", "es", "slack", "kafka", "syslog" }
    \cup BuildingOrSending

\* The places of the refresher inside a cycle.
MidCycleB == { "lock", "enum", "put" }

\* C20: a cycle under way when the flag is set goes on to its end and to the
\* sleep after it: the poller leaves the places of the cycle only for the
\* sleep, leaves the sleep only for the test of the flag, and leaves its loop
\* only from that test.
C20_CycleRunsToCompletion ==
  [][/\ (term_d /\ pc_d \in MidCycleD) => pc_d' \in MidCycleD \cup { "sleep" }
     /\ (term_b /\ pc_b \in MidCycleB) => pc_b' \in MidCycleB \cup { "sleep" }
     /\ (term_d /\ pc_d = "sleep") => pc_d' \in { "sleep", "check" }
     /\ (term_b /\ pc_b = "sleep") => pc_b' \in { "sleep", "check" }
     /\ (term_d /\ pc_d = "check") => pc_d' \in { "check", "done" }
     /\ (term_b /\ pc_b = "check") => pc_b' \in { "check", "done" }
     /\ pc_d = "done" => pc_d' = "done"
     /\ pc_b = "done" => pc_b' = "done"]_vars

\* This step is the hit on pid q: get, clone and pop.
HitOn(q) == pc_d = "tokens" /\ pc_d' = "build" /\ pid' = q

\* This step is the put of a new pid into the full cache, q being the least
\* recently used.
EvictionOf(q) ==
  /\ pc_b = "put"
  /\ listed' # listed
  /\ Len(procs) = pid_max
  /\ procs[Len(procs)].pid = q
  /\ \E p \in listed' \ listed : ~HasPid(procs, p)

C21_LeavesOnlyByHitOrEviction ==
  \A q \in Pids :
    (HasPid(procs, q) /\ ~HasPid(procs', q)) => (HitOn(q) \/ EvictionOf(q))

C21_RefreshKeepsTheOthers == pc_b' # pc_b => procs' = procs

C21_PutKeepsTheOthers ==
  (pc_b = "put" /\ listed' # listed)
    => \A q \in Pids \ (listed' \ listed) :
         (HasPid(procs, q) /\ HasPid(procs', q))
           => ValueOf(procs', q) = ValueOf(procs, q)

\* C21: a pid leaves the cache only in the step of a hit on it or in the put
\* of a new pid into the full cache, where it was the least recently used; a
\* put leaves the values of the other pids as they were, and the end of a
\* batch, or its failure, removes nothing, whichever pids the batch did not
\* enumerate.
C21_RefreshNeverRemoves ==
  [][C21_LeavesOnlyByHitOrEviction /\ C21_RefreshKeepsTheOthers
       /\ C21_PutKeepsTheOthers]_vars

\* A batch has put pid 2 only, and the entry of pid 1, which an earlier
\* batch put, is in the cache as it was.
C21_Witness ==
  /\ pc_b = "put"
  /\ listed = { 2 }
  /\ PidsOf(procs) = << 2, 1 >>
  /\ ValueOf(procs, 1) = "nginx: worker"

\* The timestamps of seq increase strictly.
StrictlyIncreasing(seq) == \A i, j \in 1..Len(seq) : i < j => seq[i] < seq[j]

C22_StrictMoves ==
  last_observed_timestamp' # last_observed_timestamp
    => last_observed_timestamp' > last_observed_timestamp

C22_AtWatermarkSkipped ==
  TakesEntry =>
    \A e \in Entries :
      (TimestampOf(e) <= last_observed_timestamp /\ HasSignature[e.msg]
         /\ DEntryOn(e))
        => /\ outcome' = "skipped"
           /\ pc_d' = "entries"
           /\ entry' = entry
           /\ UNCHANGED << last_observed_timestamp, procs, events, misses,
                           lookups >>

C22_Processed ==
  /\ StrictlyIncreasing(events)
  /\ StrictlyIncreasing(misses)
  /\ \A i \in 1..Len(events) : events[i] <= last_observed_timestamp
  /\ \A j \in 1..Len(misses) : misses[j] <= last_observed_timestamp

\* C22: every move of the watermark is a strict increase, so the entries
\* processed have strictly increasing timestamps; an entry carrying the
\* signature whose timestamp is the watermark or less, wherever in a cycle it
\* comes, is skipped before the signature test and gets no lookup, no event
\* and no miss report.
C22_StrictlyIncreasing ==
  [][C22_StrictMoves /\ C22_AtWatermarkSkipped /\ C22_Processed /\ C22_Processed']_vars

\* The second entry of a cycle was skipped, the watermark being at the
\* timestamp 2 of an entry that got a miss report.
C22_Witness ==
  /\ pc_d = "entries"
  /\ taken = 2
  /\ outcome = "skipped"
  /\ last_observed_timestamp = 2
  /\ misses = << 2 >>
  /\ events = << >>

C23_NoTimestampSkipped ==
  TakesEntry =>
    \A e \in Entries :
      (e.ts = << >> /\ DEntryOn(e))
        => /\ TimestampOf(e) = 0
           /\ outcome' = "skipped"
           /\ pc_d' = "entries"
           /\ entry' = entry
           /\ UNCHANGED << last_observed_timestamp, procs, events, misses,
                           lookups, oom_event >>

\* C23: an entry with no timestamp counts as timestamp zero and is skipped
\* whatever its message says, the signature included: the watermark, the
\* cache, the events and the miss reports stay as they were.
C23_NoTimestampAlwaysSkipped == [][C23_NoTimestampSkipped]_vars

\* The first entry of a cycle was skipped while the watermark is zero: its
\* timestamp is zero, as that of an entry with no timestamp is.
C23_Witness ==
  /\ pc_d = "entries"
  /\ taken = 1
  /\ outcome = "skipped"
  /\ last_observed_timestamp = 0
  /\ events = << >>
  /\ misses = << >>

====
